---- MODULE Spec2Model ----
(***************************************************************************)
(* Trakka: the time-tracking workflow of timesheet/views.py over the       *)
(* records of timesheet/models.py (Project, TimeEntry, WeeklyTimesheet,    *)
(* TimerSession).  Only POST requests are modelled, except the dashboard,  *)
(* whose GET resolves the current week's WeeklyTimesheet.                  *)
(*                                                                         *)
(* Time is counted in ticks of 30 seconds from the midnight that starts    *)
(* day 0, a Monday; a date is a day number.                                *)
(***************************************************************************)
EXTENDS Integers, Sequences, FiniteSets, TLC

VARIABLES
    now,        \* the wall clock, in ticks
    projects,   \* Project rows: pk -> [is_active]
    entries,    \* TimeEntry rows: pk -> record
    nextEntry,  \* next TimeEntry pk
    weekly,     \* WeeklyTimesheet rows, a sequence indexed by pk
    timers,     \* TimerSession rows: pk -> record
    nextTimer,  \* next TimerSession pk
    last,       \* the request that completed last and its outcome, when watched
    watch,      \* the handlers whose outcomes last records: [done, refused]
    reqs        \* the requests in flight: slot -> the handler's position and locals

vars == <<now, projects, entries, nextEntry, weekly, timers, nextTimer, last, watch, reqs>>

db == <<projects, entries, nextEntry, weekly, timers, nextTimer>>

-----------------------------------------------------------------------------
(* Bounds of the model *)

MaxEntries == 2
MaxBundles == 2
MaxTimers == 2
MaxDayJumps == 1
MaxDayTicks == 1
MaxInflight == 2
MaxWeekDay == 13

-----------------------------------------------------------------------------
(* Actors and roles *)

Users == {"w1", "w2", "m1", "a1"}

ROLE_CHOICES == {"WORKER", "MANAGER", "ADMIN"}

get_user_role(u) ==
    CASE u = "m1" -> "MANAGER"
      [] u = "a1" -> "ADMIN"
      [] OTHER -> "WORKER"

\* User.is_superuser: every account is made by create_user, which leaves it False
is_superuser(u) == FALSE

\* (mutant) managers taken for admins, as is_manager_or_admin does
is_adminOrManager(u) == get_user_role(u) \in {"MANAGER", "ADMIN"} \/ is_superuser(u)

is_admin(u) == get_user_role(u) = "ADMIN" \/ is_superuser(u)

\* (mutant) the role of the actor not looked at
CanApproveRoleAnyone(u) == TRUE

CanApproveRole(u) == get_user_role(u) \in {"MANAGER", "ADMIN"}

NoUser == "none"
NoTime == -1
NoBundle == 0

-----------------------------------------------------------------------------
(* Calendar and clock *)

WeekSpan == 6

TicksPerMinute == 2
TicksPerDay == 24 * 60 * TicksPerMinute

StartDay == WeekSpan
StartTime == StartDay * TicksPerDay

DateOf(t) == t \div TicksPerDay

weekday(d) == d % (WeekSpan + 1)

\* (mutant) the week counted from Sunday, as with isoweekday() % 7
week_start_ofSunday(d) == d - ((d + 1) % (WeekSpan + 1))

week_start_of(d) == d - weekday(d)

week_end_of(d) == week_start_of(d) + WeekSpan

\* The dates a form may carry: the days the clock visits.
InputDates == StartDay .. (StartDay + MaxDayJumps)

CanTickOn(t) == (t % TicksPerDay) < MaxDayTicks

CanJumpDay(t) == DateOf(t) < StartDay + MaxDayJumps

\* What a later call of timezone.now() in the same request may return.
LaterNow(t) == {t} \cup (IF CanTickOn(t) THEN {t + 1} ELSE {})

-----------------------------------------------------------------------------
(* Rows *)

Projects == {"p1", "p2"}

Reasons == {"", "r1"}

Notes == {"n1"}

NewWeeklyTimesheet(u, d) ==
    [user |-> u,
     week_start_date |-> week_start_of(d),
     week_end_date |-> week_end_of(d),
     status |-> "DRAFT",
     submitted_at |-> NoTime,
     approved_by |-> NoUser,
     approved_at |-> NoTime,
     notes |-> "",
     rejection_reason |-> ""]

\* (mutant) the duration stored in whole hours
NewTimeEntryHours(u, p, d, mins, kind, b) ==
    [user |-> u,
     project |-> p,
     date |-> d,
     duration_minutes |-> mins \div 60,
     entry_type |-> kind,
     status |-> "PENDING",
     approved_by |-> NoUser,
     approved_at |-> NoTime,
     rejection_reason |-> "",
     weekly_timesheet |-> b]

NewTimeEntry(u, p, d, mins, kind, b) ==
    [user |-> u,
     project |-> p,
     date |-> d,
     duration_minutes |-> mins,
     entry_type |-> kind,
     status |-> "PENDING",
     approved_by |-> NoUser,
     approved_at |-> NoTime,
     rejection_reason |-> "",
     weekly_timesheet |-> b]

\* weekly_timesheet.time_entries: the entries attached to bundle b
time_entries(es, b) == {e \in DOMAIN es : es[e].weekly_timesheet = b}

entry_count(es, b) == Cardinality(time_entries(es, b))

-----------------------------------------------------------------------------
(* Database statements *)

\* (mutant) no uniqueness constraint on the table
UniqueTogetherAbsent(ws, u, wk) == TRUE

\* WeeklyTimesheet.Meta.unique_together: no row for (user, week_start_date) yet
UniqueTogether(ws, u, wk) ==
    \A b \in DOMAIN ws : ~(ws[b].user = u /\ ws[b].week_start_date = wk)

\* WeeklyTimesheet.objects.get(user=u, week_start_date=wk): the matching pks
LookupWeekly(ws, u, wk) ==
    {b \in DOMAIN ws : ws[b].user = u /\ ws[b].week_start_date = wk}

FirstOf(S) == CHOOSE x \in S : \A y \in S : x <= y

\* (mutant) the defaults written onto the row that is found, as update_or_create does
GetOrCreateRowsReset(ws, u, d) ==
    IF LookupWeekly(ws, u, week_start_of(d)) # {}
    THEN [b \in DOMAIN ws |->
            IF b \in LookupWeekly(ws, u, week_start_of(d))
            THEN [ws[b] EXCEPT !.week_end_date = week_end_of(d), !.status = "DRAFT"]
            ELSE ws[b]]
    ELSE Append(ws, NewWeeklyTimesheet(u, d))

\* get_or_create(user=u, week_start_date=week_start_of(d), defaults=...): the rows after it
GetOrCreateRows(ws, u, d) ==
    IF LookupWeekly(ws, u, week_start_of(d)) # {} THEN ws
    ELSE Append(ws, NewWeeklyTimesheet(u, d))

\* (mutant) the row looked up by its week alone, whoever owns it
GetOrCreatePkAnyOwner(ws, u, d) ==
    FirstOf({b \in DOMAIN GetOrCreateRows(ws, u, d) :
                GetOrCreateRows(ws, u, d)[b].week_start_date = week_start_of(d)})

\* ... and the pk of the row it returns
GetOrCreatePk(ws, u, d) ==
    FirstOf(LookupWeekly(GetOrCreateRows(ws, u, d), u, week_start_of(d)))

\* get_or_create can run within the model's bound on WeeklyTimesheet rows
WithinBundleBound(ws, u, d) ==
    LookupWeekly(ws, u, week_start_of(d)) # {} \/ Len(ws) < MaxBundles

\* (mutant) the status of the week not looked at
BundleMutableAlways(status) == TRUE

\* "Only allow adding to DRAFT or REJECTED weeks"
BundleMutable(status) == status \in {"DRAFT", "REJECTED"}

\* submit_week: "Validate status"
CanSubmitStatus(status) == status \in {"DRAFT", "REJECTED"}

\* (mutant) the emptiness check left out
IsEmptyWeekNever(es, b) == FALSE

\* submit_week: "Validate has entries"
IsEmptyWeek(es, b) == entry_count(es, b) = 0

\* (mutant) the week's last day taken as already ended
WeekNotEndedStrict(today, week_end) == today < week_end

\* submit_week: "Validate week has ended (can only submit after Sunday)"
WeekNotEnded(today, week_end) == today <= week_end

\* approve_weekly_timesheet / reject_weekly_timesheet: status must be SUBMITTED
CanDecideStatus(status) == status = "SUBMITTED"

\* (mutant) an empty reason accepted
HasReasonAlways(reason) == TRUE

\* reject_weekly_timesheet: "Please provide a rejection reason."
HasReason(reason) == reason # ""

\* (mutant) the submit leaves the entries as they are
SubmitCascadeNone(es, b) == es

\* weekly_timesheet.time_entries.all().update(status="PENDING")
SubmitCascade(es, b) ==
    [e \in DOMAIN es |->
        IF es[e].weekly_timesheet = b
        THEN [es[e] EXCEPT !.status = "PENDING"]
        ELSE es[e]]

\* weekly_timesheet.time_entries.all().update(status="APPROVED", approved_by, approved_at)
ApproveCascade(es, b, u, t) ==
    [e \in DOMAIN es |->
        IF es[e].weekly_timesheet = b
        THEN [es[e] EXCEPT !.status = "APPROVED", !.approved_by = u, !.approved_at = t]
        ELSE es[e]]

\* (mutant) the rejection reaches only the entries still PENDING
RejectCascadePendingOnly(es, b, u, t, reason) ==
    [e \in DOMAIN es |->
        IF es[e].weekly_timesheet = b /\ es[e].status = "PENDING"
        THEN [es[e] EXCEPT !.status = "REJECTED", !.approved_by = u,
                           !.approved_at = t, !.rejection_reason = reason]
        ELSE es[e]]

\* weekly_timesheet.time_entries.all().update(status="REJECTED", ..., rejection_reason)
RejectCascade(es, b, u, t, reason) ==
    [e \in DOMAIN es |->
        IF es[e].weekly_timesheet = b
        THEN [es[e] EXCEPT !.status = "REJECTED", !.approved_by = u,
                           !.approved_at = t, !.rejection_reason = reason]
        ELSE es[e]]

\* (mutant) the submit wipes the previous decision off the bundle
SubmittedRowCleared(row, t, notes) ==
    [row EXCEPT !.status = "SUBMITTED", !.submitted_at = t, !.notes = notes,
                !.approved_by = NoUser, !.approved_at = NoTime, !.rejection_reason = ""]

\* submit_week: the fields set on the bundle before weekly_timesheet.save()
SubmittedRow(row, t, notes) ==
    [row EXCEPT !.status = "SUBMITTED", !.submitted_at = t, !.notes = notes]

\* approve_weekly_timesheet: the fields set on the bundle before save()
ApprovedRow(row, u, t) ==
    [row EXCEPT !.status = "APPROVED", !.approved_by = u, !.approved_at = t]

\* reject_weekly_timesheet: the fields set on the bundle before save()
RejectedRow(row, u, t, reason) ==
    [row EXCEPT !.status = "REJECTED", !.approved_by = u, !.approved_at = t,
                !.rejection_reason = reason]

\* TimeEntry INSERT
InsertEntry(es, pk, row) == [e \in DOMAIN es \cup {pk} |-> IF e = pk THEN row ELSE es[e]]

\* on_delete=CASCADE and entry.delete()
DeleteRows(rows, gone) == [k \in DOMAIN rows \ gone |-> rows[k]]

\* What last holds after a request of a handler that is not watched
NoRequest == [op |-> "none", ok |-> FALSE, user |-> NoUser, pk |-> 0, arg |-> "", pre |-> {}]

\* A request that took effect: the actor, the row it acted on, its text argument
\* (for a create, the start and end of the form) and the statuses the affected
\* entries had before
Completed(op, u, pk, arg, pre) ==
    IF op \in watch.done
    THEN [op |-> op, ok |-> TRUE, user |-> u, pk |-> pk, arg |-> arg, pre |-> pre]
    ELSE NoRequest

\* A request that was refused, the actor and the message it was refused with (for
\* a reject, the reason it carried)
RefusedWith(op, u, pk, message) ==
    IF op \in watch.refused
    THEN [op |-> op, ok |-> FALSE, user |-> u, pk |-> pk, arg |-> message, pre |-> {}]
    ELSE NoRequest

Refused(op, u, pk) == RefusedWith(op, u, pk, "")

StatusesOf(es, b) == {es[e].status : e \in time_entries(es, b)}

-----------------------------------------------------------------------------
BundleTransitions == {"submit_week", "approve_weekly_timesheet", "reject_weekly_timesheet"}

(* Initial state: two active projects, no entries, bundles or timers, on the *)
(* Sunday that ends week 0.                                                  *)

Init ==
    /\ now = StartTime
    /\ projects = [p \in Projects |-> [is_active |-> TRUE]]
    /\ entries = << >>
    /\ nextEntry = 1
    /\ weekly = << >>
    /\ timers = << >>
    /\ nextTimer = 1
    /\ last = NoRequest
    /\ watch = [done |-> BundleTransitions, refused |-> {"submit_week"}]
    /\ reqs = [r \in 1 .. MaxInflight |-> [pc |-> "idle"]]

-----------------------------------------------------------------------------
(* The clock *)

\* Half a minute passes
ClockTick ==
    /\ CanTickOn(now)
    /\ now' = now + 1
    /\ UNCHANGED <<db, last, watch, reqs>>

\* The next day begins
DayPasses ==
    /\ CanJumpDay(now)
    /\ now' = (DateOf(now) + 1) * TicksPerDay
    /\ UNCHANGED <<db, last, watch, reqs>>

Tick == ClockTick \/ DayPasses

-----------------------------------------------------------------------------
(* Weekly timesheet views, each request run to completion *)

\* views.dashboard
dashboard(u) ==
    /\ IF get_user_role(u) = "WORKER"
       THEN /\ WithinBundleBound(weekly, u, DateOf(now))
            /\ weekly' = GetOrCreateRows(weekly, u, DateOf(now))
            /\ last' = Completed("dashboard", u,
                                 GetOrCreatePk(weekly, u, DateOf(now)), "", {})
       ELSE /\ weekly' = weekly
            /\ last' = Refused("dashboard", u, 0)
    /\ UNCHANGED <<now, projects, entries, nextEntry, timers, nextTimer, watch, reqs>>

\* views.submit_week
submit_week(u, wk, notes) ==
    LET found == LookupWeekly(weekly, u, wk)
        b == FirstOf(found)
        ok == /\ found # {}
              /\ CanSubmitStatus(weekly[b].status)
              /\ ~IsEmptyWeek(entries, b)
              /\ ~WeekNotEnded(DateOf(now), weekly[b].week_end_date)
    IN  /\ IF ok
           THEN /\ weekly' = [weekly EXCEPT ![b] = SubmittedRow(weekly[b], now, notes)]
                /\ entries' = SubmitCascade(entries, b)
                /\ last' = Completed("submit_week", u, b, notes, StatusesOf(entries, b))
           ELSE /\ UNCHANGED <<weekly, entries>>
                /\ last' = IF found = {} THEN NoRequest ELSE Refused("submit_week", u, b)
        /\ UNCHANGED <<now, projects, nextEntry, timers, nextTimer, watch, reqs>>

\* views.approve_weekly_timesheet
approve_weekly_timesheet(u, b) ==
    LET ok == /\ CanApproveRole(u)
              /\ b \in DOMAIN weekly
              /\ CanDecideStatus(weekly[b].status)
    IN  /\ IF ok
           THEN \E t2 \in LaterNow(now) :
                /\ weekly' = [weekly EXCEPT ![b] = ApprovedRow(weekly[b], u, now)]
                /\ entries' = ApproveCascade(entries, b, u, t2)
                /\ now' = t2
                /\ last' = Completed("approve_weekly_timesheet", u, b, "",
                                     StatusesOf(entries, b))
           ELSE /\ UNCHANGED <<weekly, entries, now>>
                /\ last' = Refused("approve_weekly_timesheet", u, b)
        /\ UNCHANGED <<projects, nextEntry, timers, nextTimer, watch, reqs>>

\* views.reject_weekly_timesheet
reject_weekly_timesheet(u, b, reason) ==
    LET ok == /\ CanApproveRole(u)
              /\ b \in DOMAIN weekly
              /\ CanDecideStatus(weekly[b].status)
              /\ HasReason(reason)
    IN  /\ IF ok
           THEN \E t2 \in LaterNow(now) :
                /\ weekly' = [weekly EXCEPT ![b] = RejectedRow(weekly[b], u, now, reason)]
                /\ entries' = RejectCascade(entries, b, u, t2, reason)
                /\ now' = t2
                /\ last' = Completed("reject_weekly_timesheet", u, b, reason,
                                     StatusesOf(entries, b))
           ELSE /\ UNCHANGED <<weekly, entries, now>>
                /\ last' = RefusedWith("reject_weekly_timesheet", u, b, reason)
        /\ UNCHANGED <<projects, nextEntry, timers, nextTimer, watch, reqs>>


-----------------------------------------------------------------------------
(* Time entry views *)

\* The (start, end) times of day, in minutes, a time entry form may carry
FormTimes == {<<540, 660>>, <<600, 600>>}

\* ... and the further pairs tried on the form alone: an end before the start, one
\* minute, and the whole day but a minute
FormTimesAll == FormTimes \cup {<<840, 600>>, <<0, 1>>, <<0, 1439>>}

\* TimeEntryForm's interval rule: the end must be after the start
ValidInterval(start, end) == end > start

\* computed_duration_minutes
computeFromInterval(start, end) == end - start

\* TimeEntryForm / TimerStartForm: project queryset is filter(is_active=True)
SelectableProject(ps, p) == p \in DOMAIN ps /\ ps[p].is_active

\* views.timesheet_create
timesheet_create(u, p, d, start, end) ==
    LET valid == SelectableProject(projects, p) /\ ValidInterval(start, end)
        ws == GetOrCreateRows(weekly, u, d)
        b == GetOrCreatePk(weekly, u, d)
    IN  /\ IF ~valid
           THEN /\ UNCHANGED <<weekly, entries, nextEntry>>
                /\ last' = RefusedWith("timesheet_create", u, 0, <<start, end>>)
           ELSE /\ WithinBundleBound(weekly, u, d)
                /\ weekly' = ws
                /\ IF ~BundleMutable(ws[b].status)
                   THEN /\ UNCHANGED <<entries, nextEntry>>
                        /\ last' = RefusedWith("timesheet_create", u, 0, <<start, end>>)
                   ELSE /\ nextEntry <= MaxEntries
                        /\ entries' = InsertEntry(entries, nextEntry,
                               NewTimeEntry(u, p, d, computeFromInterval(start, end),
                                            "MANUAL", b))
                        /\ nextEntry' = nextEntry + 1
                        /\ last' = Completed("timesheet_create", u, nextEntry,
                                             <<start, end>>, {})
        /\ UNCHANGED <<now, projects, timers, nextTimer, watch, reqs>>

\* (mutant) the check for an APPROVED entry left out
MayChangeEntryAnyStatus(u, row, ws) ==
    /\ ~(get_user_role(u) = "WORKER" /\ row.user # u)
    /\ ~(/\ row.weekly_timesheet # NoBundle
         /\ ~(ws[row.weekly_timesheet].status \in {"DRAFT", "REJECTED"})
         /\ ~is_admin(u))

\* (mutant) only PENDING entries open to actors who are not admins
MayChangeEntryPendingOnly(u, row, ws) ==
    /\ ~(get_user_role(u) = "WORKER" /\ row.user # u)
    /\ ~(row.status # "PENDING" /\ ~is_admin(u))
    /\ ~(/\ row.weekly_timesheet # NoBundle
         /\ ~(ws[row.weekly_timesheet].status \in {"DRAFT", "REJECTED"})
         /\ ~is_admin(u))

\* (mutant) the owner of the entry not looked at
MayChangeEntryAnyOwner(u, row, ws) ==
    /\ ~(row.status = "APPROVED" /\ ~is_admin(u))
    /\ ~(/\ row.weekly_timesheet # NoBundle
         /\ ~BundleMutable(ws[row.weekly_timesheet].status)
         /\ ~is_admin(u))

\* timesheet_update / timesheet_delete: the permission checks before the POST branch
MayChangeEntry(u, row, ws) ==
    /\ ~(get_user_role(u) = "WORKER" /\ row.user # u)
    /\ ~(row.status = "APPROVED" /\ ~is_admin(u))
    /\ ~(/\ row.weekly_timesheet # NoBundle
         /\ ~BundleMutable(ws[row.weekly_timesheet].status)
         /\ ~is_admin(u))

\* (mutant) an edited entry goes back to PENDING with its decision wiped
EditedRowReopened(row, p, d, mins) ==
    [row EXCEPT !.project = p, !.date = d, !.duration_minutes = mins,
                !.status = "PENDING", !.approved_by = NoUser, !.approved_at = NoTime,
                !.rejection_reason = ""]

\* timesheet_update: the entry as form.save(commit=False) and the view leave it, the
\* form's fields and the duration set on the entry that was read
EditedRow(row, p, d, mins) ==
    [row EXCEPT !.project = p, !.date = d, !.duration_minutes = mins]

\* views.timesheet_update
timesheet_update(u, e, p, d, start, end) ==
    LET ok == /\ e \in DOMAIN entries
              /\ MayChangeEntry(u, entries[e], weekly)
              /\ SelectableProject(projects, p)
              /\ ValidInterval(start, end)
    IN  /\ IF ok
           THEN /\ entries' = [entries EXCEPT ![e] =
                       EditedRow(entries[e], p, d, computeFromInterval(start, end))]
                /\ last' = Completed("timesheet_update", u, e, "", {})
           ELSE /\ UNCHANGED entries
                /\ last' = Refused("timesheet_update", u, e)
        /\ UNCHANGED <<now, projects, nextEntry, weekly, timers, nextTimer, watch, reqs>>

\* views.timesheet_delete
timesheet_delete(u, e) ==
    LET ok == e \in DOMAIN entries /\ MayChangeEntry(u, entries[e], weekly)
    IN  /\ IF ok
           THEN /\ entries' = DeleteRows(entries, {e})
                /\ last' = Completed("timesheet_delete", u, e, "", {})
           ELSE /\ UNCHANGED entries
                /\ last' = Refused("timesheet_delete", u, e)
        /\ UNCHANGED <<now, projects, nextEntry, weekly, timers, nextTimer, watch, reqs>>

\* (mutant) a decided entry may be decided again
CanDecideEntryAgain(status) == TRUE

\* approve_entry / reject_entry: "This entry has already been processed."
CanDecideEntry(status) == status = "PENDING"

\* views.approve_entry
approve_entry(u, e) ==
    LET ok == /\ CanApproveRole(u)
              /\ e \in DOMAIN entries
              /\ CanDecideEntry(entries[e].status)
    IN  /\ IF ok
           THEN /\ entries' = [entries EXCEPT ![e].status = "APPROVED",
                       ![e].approved_by = u, ![e].approved_at = now]
                /\ last' = Completed("approve_entry", u, e, "", {entries[e].status})
           ELSE /\ UNCHANGED entries
                /\ last' = Refused("approve_entry", u, e)
        /\ UNCHANGED <<now, projects, nextEntry, weekly, timers, nextTimer, watch, reqs>>

\* views.reject_entry
reject_entry(u, e, reason) ==
    LET ok == /\ CanApproveRole(u)
              /\ e \in DOMAIN entries
              /\ CanDecideEntry(entries[e].status)
    IN  /\ IF ok
           THEN /\ entries' = [entries EXCEPT ![e].status = "REJECTED",
                       ![e].approved_by = u, ![e].approved_at = now,
                       ![e].rejection_reason = reason]
                /\ last' = Completed("reject_entry", u, e, reason, {entries[e].status})
           ELSE /\ UNCHANGED entries
                /\ last' = Refused("reject_entry", u, e)
        /\ UNCHANGED <<now, projects, nextEntry, weekly, timers, nextTimer, watch, reqs>>

-----------------------------------------------------------------------------
(* Timer views *)

\* (mutant) the query for a running timer finds none
RunningTimersNone(ts, u) == {}

\* TimerSession.objects.filter(user=u, is_running=True)
RunningTimers(ts, u) == {k \in DOMAIN ts : ts[k].user = u /\ ts[k].is_running}

\* (mutant) the elapsed time not divided down to minutes
duration_minutesUndivided(row, t) ==
    IF row.is_running THEN t - row.start_time ELSE 0

\* TimerSession.duration_minutes, read at clock t while the timer is running
duration_minutes(row, t) ==
    IF row.is_running THEN (t - row.start_time) \div TicksPerMinute ELSE 0

\* views.timer_start
timer_start(u, p) ==
    LET ok == SelectableProject(projects, p) /\ RunningTimers(timers, u) = {}
    IN  /\ IF ok
           THEN /\ nextTimer <= MaxTimers
                /\ timers' = InsertEntry(timers, nextTimer,
                       [user |-> u, project |-> p, start_time |-> now, is_running |-> TRUE])
                /\ nextTimer' = nextTimer + 1
                /\ last' = Completed("timer_start", u, nextTimer, "", {})
           ELSE /\ UNCHANGED <<timers, nextTimer>>
                /\ last' = Refused("timer_start", u, 0)
        /\ UNCHANGED <<now, projects, entries, nextEntry, weekly, watch, reqs>>

\* (mutant) the save stamps the start time anew, as auto_now would
StoppedRowRestamped(row) == [row EXCEPT !.is_running = FALSE, !.start_time = now]

\* timer_stop: timer.is_running = False; timer.save()
StoppedRow(row) == [row EXCEPT !.is_running = FALSE]

\* (mutant) the running flag of the timer not looked at
StoppableTimerStopped(ts, u, k) == k \in DOMAIN ts /\ ts[k].user = u

\* timer_stop: get_object_or_404(TimerSession, pk=k, user=u), and
\* "This timer is already stopped."
StoppableTimer(ts, u, k) == k \in DOMAIN ts /\ ts[k].user = u /\ ts[k].is_running

\* views.timer_stop
timer_stop(u, k) ==
    LET d == DateOf(timers[k].start_time)
        ws == GetOrCreateRows(weekly, u, d)
        b == GetOrCreatePk(weekly, u, d)
    IN  IF ~StoppableTimer(timers, u, k)
        THEN /\ last' = Refused("timer_stop", u, k)
             /\ UNCHANGED <<now, db, watch, reqs>>
        ELSE \E t2 \in LaterNow(now) :
             /\ WithinBundleBound(weekly, u, d)
             /\ weekly' = ws
             /\ now' = t2
             /\ timers' = [timers EXCEPT ![k] = StoppedRow(timers[k])]
             /\ IF ~BundleMutable(ws[b].status)
                THEN /\ UNCHANGED <<entries, nextEntry>>
                     /\ last' = RefusedWith("timer_stop", u, k, "Cannot add entries")
                ELSE /\ nextEntry <= MaxEntries
                     /\ entries' = InsertEntry(entries, nextEntry,
                            NewTimeEntry(u, timers[k].project, d,
                                         duration_minutes(timers[k], t2), "TIMER", b))
                     /\ nextEntry' = nextEntry + 1
                     /\ last' = Completed("timer_stop", u, k, "", {})
             /\ UNCHANGED <<projects, nextTimer, watch, reqs>>

-----------------------------------------------------------------------------
(* Project views *)

\* views.project_update, as far as the active flag goes
project_update(u, p, active) ==
    LET ok == get_user_role(u) \in {"MANAGER", "ADMIN"} /\ p \in DOMAIN projects
    IN  /\ IF ok
           THEN projects' = [projects EXCEPT ![p].is_active = active]
           ELSE UNCHANGED projects
        /\ last' = IF ok THEN Completed("project_update", u, 0, "", {})
                    ELSE Refused("project_update", u, 0)
        /\ UNCHANGED <<now, entries, nextEntry, weekly, timers, nextTimer, watch, reqs>>

\* views.project_delete, with the on_delete=CASCADE of TimeEntry.project and
\* TimerSession.project
project_delete(u, p) ==
    LET ok == is_admin(u) /\ p \in DOMAIN projects
    IN  /\ IF ok
           THEN /\ projects' = DeleteRows(projects, {p})
                /\ entries' = DeleteRows(entries,
                                  {e \in DOMAIN entries : entries[e].project = p})
                /\ timers' = DeleteRows(timers,
                                  {k \in DOMAIN timers : timers[k].project = p})
           ELSE UNCHANGED <<projects, entries, timers>>
        /\ last' = IF ok THEN Completed("project_delete", u, 0, p, {})
                    ELSE RefusedWith("project_delete", u, 0, p)
        /\ UNCHANGED <<now, nextEntry, weekly, nextTimer, watch, reqs>>

-----------------------------------------------------------------------------
(* Requests, each run to completion before the next one starts, by the     *)
(* actors U on the projects P with the dates D                             *)

WeekStartsOf(D) == {week_start_of(d) : d \in D}

EntryRequests(O, U, P, D) ==
    \/ \E u \in O, p \in P, d \in D, t \in FormTimes :
          timesheet_create(u, p, d, t[1], t[2])
    \/ \E u \in U, e \in 1 .. MaxEntries, p \in P, d \in D, t \in FormTimes :
          timesheet_update(u, e, p, d, t[1], t[2])
    \/ \E u \in U, e \in 1 .. MaxEntries : timesheet_delete(u, e)
    \/ \E u \in U, e \in 1 .. MaxEntries : approve_entry(u, e)
    \/ \E u \in U, e \in 1 .. MaxEntries, r \in Reasons : reject_entry(u, e, r)

BundleRequests(O, U, D) ==
    \/ \E u \in O : dashboard(u)
    \/ \E u \in O, wk \in WeekStartsOf(D), n \in Notes : submit_week(u, wk, n)
    \/ \E u \in U, b \in 1 .. MaxBundles : approve_weekly_timesheet(u, b)
    \/ \E u \in U, b \in 1 .. MaxBundles, r \in Reasons :
          reject_weekly_timesheet(u, b, r)

TimerRequests(U, P) ==
    \/ \E u \in U, p \in P : timer_start(u, p)
    \/ \E u \in U, k \in 1 .. MaxTimers : timer_stop(u, k)

ProjectRequests(U, P) ==
    \/ \E u \in U, p \in P, a \in BOOLEAN : project_update(u, p, a)
    \/ \E u \in U, p \in P : project_delete(u, p)

\* The weekly workflow: one worker and one manager on one project
WorkflowUsers == {"w1", "m1"}

Next ==
    \/ Tick
    \/ EntryRequests({"w1"}, WorkflowUsers, {"p1"}, InputDates)
    \/ BundleRequests({"w1"}, WorkflowUsers, InputDates)

Spec == Init /\ [][Next]_vars

-----------------------------------------------------------------------------
(* Properties of the weekly workflow, checked under Spec *)

\* The step is a submit_week request for bundle b (the only handler that records
\* "submit_week", and one that does not move the clock)
SubmitStep(b) == last'.op = "submit_week" /\ last'.pk = b /\ now' = now

\* C3: after a successful approve of a SUBMITTED bundle by approver A the bundle is
\* APPROVED and every attached entry is APPROVED, with approver A and the bundle's
\* own approval timestamp, whatever its status was before.
C3_ApproveStampsEntriesLikeBundle ==
    (last.op = "approve_weekly_timesheet" /\ last.ok) =>
        /\ weekly[last.pk].status = "APPROVED"
        /\ \A e \in time_entries(entries, last.pk) :
              /\ entries[e].status = "APPROVED"
              /\ entries[e].approved_by = last.user
              /\ entries[e].approved_at = weekly[last.pk].approved_at

\* C6: after a successful reject of a SUBMITTED bundle by approver A with a non-empty
\* reason R the bundle is REJECTED with approver A and reason R, and every attached
\* entry is REJECTED with reason R and approver A, whatever its status was before.
C6_RejectCascades ==
    (last.op = "reject_weekly_timesheet" /\ last.ok) =>
        /\ last.arg # ""
        /\ weekly[last.pk].status = "REJECTED"
        /\ weekly[last.pk].approved_by = last.user
        /\ weekly[last.pk].rejection_reason = last.arg
        /\ \A e \in time_entries(entries, last.pk) :
              /\ entries[e].status = "REJECTED"
              /\ entries[e].rejection_reason = last.arg
              /\ entries[e].approved_by = last.user

\* A bundle rejection has just overwritten an individually approved and an
\* individually rejected entry.
C6_Witness ==
    /\ last.op = "reject_weekly_timesheet" /\ last.ok
    /\ last.pre = {"APPROVED", "REJECTED"}
    /\ Cardinality(time_entries(entries, last.pk)) = 2

\* C7: a submit of a bundle that has no entries is refused, be the bundle DRAFT or
\* REJECTED and whatever the date, and leaves every bundle (status, submission
\* timestamp, notes) and every entry as it was.
C7_EmptySubmitRefused ==
    [][\A b \in DOMAIN weekly :
          (SubmitStep(b) /\ entry_count(entries, b) = 0)
             => (~last'.ok /\ weekly' = weekly /\ entries' = entries)]_vars

\* A submit of an empty REJECTED bundle whose week has ended has just been refused.
C7_Witness ==
    /\ last.op = "submit_week" /\ ~last.ok /\ last.pk \in DOMAIN weekly
    /\ weekly[last.pk].status = "REJECTED"
    /\ entry_count(entries, last.pk) = 0
    /\ DateOf(now) > weekly[last.pk].week_end_date

\* C8: for a non-empty DRAFT or REJECTED bundle, a submit on a day up to the week's
\* end date is refused and changes no bundle and no entry; a submit on a later day
\* makes the bundle SUBMITTED.
C8_SubmitOnlyAfterWeekEnd ==
    [][\A b \in DOMAIN weekly :
          (/\ SubmitStep(b)
           /\ weekly[b].status \in {"DRAFT", "REJECTED"}
           /\ entry_count(entries, b) > 0)
             => IF DateOf(now) <= weekly[b].week_end_date
                THEN ~last'.ok /\ weekly' = weekly /\ entries' = entries
                ELSE last'.ok /\ weekly'[b].status = "SUBMITTED"]_vars

\* A submit of a non-empty DRAFT bundle has just been refused on a day up to its
\* week's end, while another bundle stands submitted since the day after its own
\* week's end.
C8_Witness ==
    /\ last.op = "submit_week" /\ ~last.ok /\ last.pk \in DOMAIN weekly
    /\ weekly[last.pk].status = "DRAFT"
    /\ entry_count(entries, last.pk) > 0
    /\ DateOf(now) <= weekly[last.pk].week_end_date
    /\ \E b \in DOMAIN weekly :
          /\ weekly[b].status = "SUBMITTED"
          /\ DateOf(weekly[b].submitted_at) = weekly[b].week_end_date + 1

\* C9: after a successful submit the bundle is SUBMITTED and every attached entry is
\* PENDING.
C9_SubmitResetsEntries ==
    (last.op = "submit_week" /\ last.ok) =>
        /\ weekly[last.pk].status = "SUBMITTED"
        /\ \A e \in time_entries(entries, last.pk) : entries[e].status = "PENDING"

\* A rejected bundle has just been submitted again with an entry its rejection had
\* rejected and an entry added after the rejection.
C9_Witness ==
    /\ last.op = "submit_week" /\ last.ok
    /\ weekly[last.pk].rejection_reason # ""
    /\ last.pre = {"REJECTED", "PENDING"}
    /\ \E e1, e2 \in time_entries(entries, last.pk) :
          /\ entries[e1].rejection_reason = weekly[last.pk].rejection_reason
          /\ entries[e1].approved_at >= weekly[last.pk].approved_at
          /\ entries[e2].approved_by = NoUser

\* The handler that makes each status step
StatusSteps ==
    {<<"submit_week", "DRAFT", "SUBMITTED">>,
     <<"submit_week", "REJECTED", "SUBMITTED">>,
     <<"approve_weekly_timesheet", "SUBMITTED", "APPROVED">>,
     <<"reject_weekly_timesheet", "SUBMITTED", "REJECTED">>}

\* C10, with each request run to completion: a step changes a bundle's status only
\* along DRAFT->SUBMITTED, REJECTED->SUBMITTED, SUBMITTED->APPROVED or
\* SUBMITTED->REJECTED, so APPROVED is final; and a submit, approve or reject of a
\* bundle in any other status leaves the bundle as it was: a step that changes a
\* bundle row at all is a successful submit, approve or reject of that bundle from
\* a status it is legal in.
C10_StatusSteps ==
    [][\A b \in DOMAIN weekly :
          /\ b \in DOMAIN weekly'
          /\ weekly'[b] # weekly[b] =>
                /\ last'.ok /\ last'.pk = b
                /\ <<last'.op, weekly[b].status, weekly'[b].status>> \in StatusSteps]_vars

\* A bundle has gone DRAFT -> SUBMITTED -> REJECTED -> SUBMITTED -> APPROVED.
C10_Witness ==
    \E b \in DOMAIN weekly :
       /\ weekly[b].status = "APPROVED"
       /\ weekly[b].rejection_reason # ""

-----------------------------------------------------------------------------
(* Requests served concurrently.  The code opens no transaction, so every    *)
(* database statement of a handler commits on its own and the statements of  *)
(* the requests in flight interleave.  A request holds the rows it has read  *)
(* as locals; Model.save() writes the whole row back from them.              *)

Slots == 1 .. MaxInflight

Idle == [pc |-> "idle"]

\* The lowest free slot takes the next request
FreeSlot(r) == reqs[r].pc = "idle" /\ \A q \in Slots : q < r => reqs[q].pc # "idle"

\* get_or_create, first statement: the get.  The request goes on with the row
\* found, or to the INSERT when there is none.
AfterGet(ws, rec) ==
    LET found == LookupWeekly(ws, rec.user, week_start_of(rec.date))
    IN  IF found = {}
        THEN [rec EXCEPT !.pc = "insert"]
        ELSE [rec EXCEPT !.pc = "got", !.bundle = FirstOf(found),
                         !.row = ws[FirstOf(found)], !.via = "get"]

\* The locals of a request that resolves a bundle for the date d
BundleRequest(op, u, p, d, mins, k) ==
    [op |-> op, pc |-> "get", user |-> u, project |-> p, date |-> d, mins |-> mins,
     timer |-> k, bundle |-> NoBundle, row |-> NewWeeklyTimesheet(u, d), via |-> "none"]

\* get_or_create, second statement: the INSERT under unique_together; on an
\* IntegrityError the row the other request has inserted is fetched instead.
get_or_create_insert(r) ==
    LET rec == reqs[r]
        wk == week_start_of(rec.date)
        b == FirstOf(LookupWeekly(weekly, rec.user, wk))
    IN  /\ rec.pc = "insert"
        /\ IF UniqueTogether(weekly, rec.user, wk)
           THEN /\ Len(weekly) < MaxBundles
                /\ weekly' = Append(weekly, NewWeeklyTimesheet(rec.user, rec.date))
                /\ reqs' = [reqs EXCEPT ![r] =
                       [rec EXCEPT !.pc = "got", !.bundle = Len(weekly) + 1,
                                   !.row = NewWeeklyTimesheet(rec.user, rec.date),
                                   !.via = "create"]]
           ELSE /\ weekly' = weekly
                /\ reqs' = [reqs EXCEPT ![r] =
                       [rec EXCEPT !.pc = "got", !.bundle = b, !.row = weekly[b],
                                   !.via = "integrity"]]
        /\ UNCHANGED <<now, projects, entries, nextEntry, timers, nextTimer, last, watch>>

\* views.dashboard, up to the get of get_or_create
dashboard_get(r, u) ==
    /\ FreeSlot(r)
    /\ get_user_role(u) = "WORKER"
    /\ reqs' = [reqs EXCEPT ![r] =
           AfterGet(weekly, BundleRequest("dashboard", u, "", DateOf(now), 0, 0))]
    /\ UNCHANGED <<now, db, last, watch>>

\* views.dashboard, the response rendered from current_week
dashboard_render(r) ==
    /\ reqs[r].pc = "got" /\ reqs[r].op = "dashboard"
    /\ reqs' = [reqs EXCEPT ![r] = Idle]
    /\ UNCHANGED <<now, db, last, watch>>

\* views.timesheet_create, up to the get of get_or_create
timesheet_create_get(r, u, p, d, start, end) ==
    /\ FreeSlot(r)
    /\ SelectableProject(projects, p) /\ ValidInterval(start, end)
    /\ reqs' = [reqs EXCEPT ![r] =
           AfterGet(weekly, BundleRequest("timesheet_create", u, p, d,
                                          computeFromInterval(start, end), 0))]
    /\ UNCHANGED <<now, db, last, watch>>

\* views.timesheet_create, from the status check on the bundle it holds to entry.save()
timesheet_create_save(r) ==
    LET rec == reqs[r]
    IN  /\ rec.pc = "got" /\ rec.op = "timesheet_create"
        /\ IF ~BundleMutable(rec.row.status)
           THEN UNCHANGED <<entries, nextEntry>>
           ELSE /\ nextEntry <= MaxEntries
                /\ entries' = InsertEntry(entries, nextEntry,
                       NewTimeEntry(rec.user, rec.project, rec.date, rec.mins,
                                    "MANUAL", rec.bundle))
                /\ nextEntry' = nextEntry + 1
        /\ reqs' = [reqs EXCEPT ![r] = Idle]
        /\ UNCHANGED <<now, projects, weekly, timers, nextTimer, last, watch>>

\* views.timer_start, up to the query for a running timer
timer_start_check(r, u, p) ==
    /\ FreeSlot(r)
    /\ SelectableProject(projects, p)
    /\ RunningTimers(timers, u) = {}
    /\ reqs' = [reqs EXCEPT ![r] =
           [op |-> "timer_start", pc |-> "create", user |-> u, project |-> p]]
    /\ UNCHANGED <<now, db, last, watch>>

\* views.timer_start, TimerSession.objects.create
timer_start_create(r) ==
    LET rec == reqs[r]
    IN  /\ rec.pc = "create"
        /\ nextTimer <= MaxTimers
        /\ timers' = InsertEntry(timers, nextTimer,
               [user |-> rec.user, project |-> rec.project, start_time |-> now,
                is_running |-> TRUE])
        /\ nextTimer' = nextTimer + 1
        /\ reqs' = [reqs EXCEPT ![r] = Idle]
        /\ UNCHANGED <<now, projects, entries, nextEntry, weekly, last, watch>>

\* views.timer_stop, up to the get of get_or_create
timer_stop_get(r, u, k) ==
    /\ FreeSlot(r)
    /\ StoppableTimer(timers, u, k)
    /\ reqs' = [reqs EXCEPT ![r] =
           AfterGet(weekly, BundleRequest("timer_stop", u, timers[k].project,
                                          DateOf(timers[k].start_time),
                                          duration_minutes(timers[k], now), k))]
    /\ UNCHANGED <<now, db, last, watch>>

\* views.timer_stop, from the status check to TimeEntry.objects.create; into a
\* bundle that is not open it goes straight to timer.save()
timer_stop_entry(r) ==
    LET rec == reqs[r]
    IN  /\ rec.pc = "got" /\ rec.op = "timer_stop"
        /\ IF ~BundleMutable(rec.row.status)
           THEN UNCHANGED <<entries, nextEntry>>
           ELSE /\ nextEntry <= MaxEntries
                /\ entries' = InsertEntry(entries, nextEntry,
                       NewTimeEntry(rec.user, rec.project, rec.date, rec.mins,
                                    "TIMER", rec.bundle))
                /\ nextEntry' = nextEntry + 1
        /\ reqs' = [reqs EXCEPT ![r] = [rec EXCEPT !.pc = "timer_save"]]
        /\ UNCHANGED <<now, projects, weekly, timers, nextTimer, last, watch>>

\* views.timer_stop, timer.save()
timer_stop_save(r) ==
    LET rec == reqs[r]
    IN  /\ rec.pc = "timer_save"
        /\ timers' = [timers EXCEPT ![rec.timer] = StoppedRow(timers[rec.timer])]
        /\ reqs' = [reqs EXCEPT ![r] = Idle]
        /\ UNCHANGED <<now, projects, entries, nextEntry, weekly, nextTimer, last, watch>>

\* The locals of a request that changes the status of bundle b, and the status it
\* found the bundle in
StatusRequest(op, u, b, text) ==
    [op |-> op, pc |-> "save", user |-> u, bundle |-> b, row |-> weekly[b], text |-> text,
     was |-> weekly[b].status]

\* views.submit_week, the bundle read and the three validations
submit_week_check(r, u, wk, notes) ==
    LET found == LookupWeekly(weekly, u, wk)
        b == FirstOf(found)
    IN  /\ FreeSlot(r)
        /\ found # {}
        /\ CanSubmitStatus(weekly[b].status)
        /\ ~IsEmptyWeek(entries, b)
        /\ ~WeekNotEnded(DateOf(now), weekly[b].week_end_date)
        /\ reqs' = [reqs EXCEPT ![r] = StatusRequest("submit_week", u, b, notes)]
        /\ UNCHANGED <<now, db, last, watch>>

\* views.approve_weekly_timesheet, the role check, the bundle read and the status check
approve_weekly_timesheet_check(r, u, b) ==
    /\ FreeSlot(r)
    /\ CanApproveRole(u)
    /\ b \in DOMAIN weekly
    /\ CanDecideStatus(weekly[b].status)
    /\ reqs' = [reqs EXCEPT ![r] = StatusRequest("approve_weekly_timesheet", u, b, "")]
    /\ UNCHANGED <<now, db, last, watch>>

\* views.reject_weekly_timesheet, the checks up to the reason
reject_weekly_timesheet_check(r, u, b, reason) ==
    /\ FreeSlot(r)
    /\ CanApproveRole(u)
    /\ b \in DOMAIN weekly
    /\ CanDecideStatus(weekly[b].status)
    /\ HasReason(reason)
    /\ reqs' = [reqs EXCEPT ![r] = StatusRequest("reject_weekly_timesheet", u, b, reason)]
    /\ UNCHANGED <<now, db, last, watch>>

\* submit_week / approve_weekly_timesheet / reject_weekly_timesheet:
\* weekly_timesheet.save(), the whole row as the request holds it
weekly_timesheet_save(r) ==
    LET rec == reqs[r]
        row == CASE rec.op = "submit_week" -> SubmittedRow(rec.row, now, rec.text)
                 [] rec.op = "approve_weekly_timesheet" -> ApprovedRow(rec.row, rec.user, now)
                 [] OTHER -> RejectedRow(rec.row, rec.user, now, rec.text)
    IN  /\ rec.pc = "save"
        /\ weekly' = [weekly EXCEPT ![rec.bundle] = row]
        /\ reqs' = [reqs EXCEPT ![r] = [rec EXCEPT !.pc = "update", !.row = row]]
        /\ UNCHANGED <<now, projects, entries, nextEntry, timers, nextTimer, last, watch>>

\* ... and weekly_timesheet.time_entries.all().update(...)
time_entries_update(r) ==
    LET rec == reqs[r]
    IN  /\ rec.pc = "update"
        /\ entries' =
              CASE rec.op = "submit_week" -> SubmitCascade(entries, rec.bundle)
                [] rec.op = "approve_weekly_timesheet" ->
                      ApproveCascade(entries, rec.bundle, rec.user, now)
                [] OTHER -> RejectCascade(entries, rec.bundle, rec.user, now, rec.text)
        /\ reqs' = [reqs EXCEPT ![r] = Idle]
        /\ UNCHANGED <<now, projects, nextEntry, weekly, timers, nextTimer, last, watch>>

\* submit_week / approve_weekly_timesheet / reject_weekly_timesheet: the request ends
\* in an exception after weekly_timesheet.save() has committed and before
\* time_entries.all().update(...) has run (the database refuses the statement, the
\* worker process is stopped).  No transaction is open, so nothing is rolled back.
request_fails(r) ==
    LET rec == reqs[r]
    IN  /\ rec.pc = "update"
        /\ reqs' = [reqs EXCEPT ![r] = Idle]
        /\ last' = RefusedWith(rec.op, rec.user, rec.bundle, rec.was)
        /\ UNCHANGED <<now, db, watch>>

\* No outcome is recorded while requests interleave
ConcInit ==
    /\ now = StartTime
    /\ projects = [p \in Projects |-> [is_active |-> TRUE]]
    /\ entries = << >>
    /\ nextEntry = 1
    /\ weekly = << >>
    /\ timers = << >>
    /\ nextTimer = 1
    /\ last = NoRequest
    /\ watch = [done |-> {}, refused |-> {}]
    /\ reqs = [r \in Slots |-> Idle]

ConcNext ==
    \/ DayPasses
    \/ \E r \in Slots : dashboard_get(r, "w1")
    \/ \E r \in Slots : dashboard_render(r)
    \/ \E r \in Slots : get_or_create_insert(r)
    \/ \E r \in Slots, t \in FormTimes : timesheet_create_get(r, "w1", "p1", StartDay, t[1], t[2])
    \/ \E r \in Slots : timesheet_create_save(r)
    \/ \E r \in Slots, wk \in WeekStartsOf(InputDates), n \in Notes :
          submit_week_check(r, "w1", wk, n)
    \/ \E r \in Slots, b \in 1 .. MaxBundles : approve_weekly_timesheet_check(r, "m1", b)
    \/ \E r \in Slots, b \in 1 .. MaxBundles, x \in Reasons :
          reject_weekly_timesheet_check(r, "m1", b, x)
    \/ \E r \in Slots : weekly_timesheet_save(r)
    \/ \E r \in Slots : time_entries_update(r)

ConcSpec == ConcInit /\ [][ConcNext]_vars

\* The timer requests of one worker, interleaved
TimerNext ==
    \/ Tick
    \/ \E r \in Slots : timer_start_check(r, "w1", "p1")
    \/ \E r \in Slots : timer_start_create(r)
    \/ \E r \in Slots, k \in 1 .. MaxTimers : timer_stop_get(r, "w1", k)
    \/ \E r \in Slots : get_or_create_insert(r)
    \/ \E r \in Slots : timer_stop_entry(r)
    \/ \E r \in Slots : timer_stop_save(r)

TimerSpec == ConcInit /\ [][TimerNext]_vars

\* views.timesheet_update, from get_object_or_404 over the permission checks to the
\* validated form: the request holds the entry as it read it, with the form's fields
timesheet_update_get(r, u, e, p, d, start, end) ==
    /\ FreeSlot(r)
    /\ e \in DOMAIN entries
    /\ MayChangeEntry(u, entries[e], weekly)
    /\ SelectableProject(projects, p) /\ ValidInterval(start, end)
    /\ reqs' = [reqs EXCEPT ![r] =
           [op |-> "timesheet_update", pc |-> "entry_save", user |-> u, entry |-> e,
            row |-> EditedRow(entries[e], p, d, computeFromInterval(start, end))]]
    /\ UNCHANGED <<now, db, last, watch>>

\* views.timesheet_update, entry.save(): the whole row as the request holds it
timesheet_update_save(r) ==
    LET rec == reqs[r]
    IN  /\ rec.pc = "entry_save"
        /\ rec.entry \in DOMAIN entries
        /\ entries' = [entries EXCEPT ![rec.entry] = rec.row]
        /\ reqs' = [reqs EXCEPT ![r] = Idle]
        /\ last' = Completed("timesheet_update", rec.user, rec.entry, "", {})
        /\ UNCHANGED <<now, projects, nextEntry, weekly, timers, nextTimer, watch>>

\* The requests that change an entry's status, and the edit
EditViews ==
    {"timesheet_update", "approve_entry", "reject_entry", "submit_week",
     "approve_weekly_timesheet", "reject_weekly_timesheet"}

\* The owner's edits, statement by statement, among requests run to completion, on
\* the Monday after week 0
EditInit ==
    /\ now = (StartDay + 1) * TicksPerDay
    /\ projects = [p \in Projects |-> [is_active |-> TRUE]]
    /\ entries = << >>
    /\ nextEntry = 1
    /\ weekly = << >>
    /\ timers = << >>
    /\ nextTimer = 1
    /\ last = NoRequest
    /\ watch = [done |-> EditViews, refused |-> {}]
    /\ reqs = [r \in Slots |-> Idle]

EditNext ==
    \/ \E t \in FormTimes : timesheet_create("w1", "p1", StartDay, t[1], t[2])
    \/ \E r \in Slots, e \in 1 .. MaxEntries, t \in FormTimes :
          timesheet_update_get(r, "w1", e, "p1", StartDay, t[1], t[2])
    \/ \E r \in Slots : timesheet_update_save(r)
    \/ \E e \in 1 .. MaxEntries : approve_entry("m1", e)
    \/ \E e \in 1 .. MaxEntries, x \in Reasons : reject_entry("m1", e, x)
    \/ \E n \in Notes : submit_week("w1", week_start_of(StartDay), n)
    \/ \E b \in 1 .. MaxBundles : approve_weekly_timesheet("m1", b)
    \/ \E b \in 1 .. MaxBundles, x \in Reasons : reject_weekly_timesheet("m1", b, x)

EditSpec == EditInit /\ [][EditNext]_vars

\* One bundle transition at a time, which may fail between its two statements,
\* on the Monday after week 0; w1 adds entries and m1 decides single entries.
FailInit ==
    /\ now = (StartDay + 1) * TicksPerDay
    /\ projects = [p \in Projects |-> [is_active |-> TRUE]]
    /\ entries = << >>
    /\ nextEntry = 1
    /\ weekly = << >>
    /\ timers = << >>
    /\ nextTimer = 1
    /\ last = NoRequest
    /\ watch = [done |-> {}, refused |-> BundleTransitions]
    /\ reqs = [r \in Slots |-> Idle]

FailNext ==
    \/ ClockTick
    \/ \E t \in FormTimes : timesheet_create("w1", "p1", StartDay, t[1], t[2])
    \/ \E e \in 1 .. MaxEntries : approve_entry("m1", e)
    \/ \E n \in Notes : submit_week_check(1, "w1", week_start_of(StartDay), n)
    \/ \E b \in 1 .. MaxBundles : approve_weekly_timesheet_check(1, "m1", b)
    \/ \E b \in 1 .. MaxBundles, x \in Reasons : reject_weekly_timesheet_check(1, "m1", b, x)
    \/ weekly_timesheet_save(1)
    \/ time_entries_update(1)
    \/ request_fails(1)

FailSpec == FailInit /\ [][FailNext]_vars

-----------------------------------------------------------------------------
(* Properties of interleaved requests, checked under TimerSpec and ConcSpec *)

\* C1: every owner has at most one running TimerSession in every reachable state,
\* also when two timer-start requests of the owner interleave between the query for
\* a running timer and the create; of two such requests only one creates a session.
C1_OneRunningTimer ==
    \A u \in Users : Cardinality(RunningTimers(timers, u)) <= 1

\* C2: for every (owner, week-start) pair there is at most one WeeklyTimesheet row
\* in every reachable state, also when get_or_create runs concurrently for the same
\* owner and week; every request that has come out of get_or_create holds the one
\* row of its owner and week, so the second caller holds the row the first created.
C2_OneBundlePerWeek ==
    /\ \A b1, b2 \in DOMAIN weekly :
          (/\ weekly[b1].user = weekly[b2].user
           /\ weekly[b1].week_start_date = weekly[b2].week_start_date) => b1 = b2
    /\ \A r \in Slots :
          reqs[r].pc = "got" =>
             LookupWeekly(weekly, reqs[r].user, week_start_of(reqs[r].date))
                = {reqs[r].bundle}

\* Two requests found no bundle for the same week; one inserted it, the INSERT of
\* the other failed on the constraint, and both hold the same row.
C2_Witness ==
    \E r1, r2 \in Slots :
       /\ reqs[r1].pc = "got" /\ reqs[r2].pc = "got"
       /\ reqs[r1].via = "create" /\ reqs[r2].via = "integrity"
       /\ reqs[r1].bundle = reqs[r2].bundle
       /\ reqs[r1].op # reqs[r2].op

\* C4: the status flip of a bundle and the bulk update of its entries are one atomic
\* step: no reachable state has an APPROVED bundle with a PENDING entry attached,
\* and none has a bundle stored REJECTED by a request whose update of the entries is
\* still to come while an attached entry is not REJECTED.
C4_CascadeIsAtomic ==
    \A b \in DOMAIN weekly :
       /\ weekly[b].status = "APPROVED" =>
             \A e \in time_entries(entries, b) : entries[e].status # "PENDING"
       /\ (/\ weekly[b].status = "REJECTED"
           /\ \E r \in Slots : /\ reqs[r].pc = "update"
                               /\ reqs[r].op = "reject_weekly_timesheet"
                               /\ reqs[r].bundle = b) =>
             \A e \in time_entries(entries, b) : entries[e].status = "REJECTED"

\* C5: no step stores a new entry attached to a bundle that is SUBMITTED or APPROVED
\* at that moment, however the create request interleaves with submit and approve
\* requests on the bundle.
C5_AdmissionAtStore ==
    [][\A e \in DOMAIN entries' \ DOMAIN entries :
          weekly'[entries'[e].weekly_timesheet].status \in {"DRAFT", "REJECTED"}]_vars

\* The legal changes of a bundle's status
StatusEdges ==
    {<<"DRAFT", "SUBMITTED">>, <<"REJECTED", "SUBMITTED">>,
     <<"SUBMITTED", "APPROVED">>, <<"SUBMITTED", "REJECTED">>}

\* C10: in every step of every behaviour, with requests interleaved, a bundle's
\* status changes only along DRAFT->SUBMITTED, REJECTED->SUBMITTED,
\* SUBMITTED->APPROVED or SUBMITTED->REJECTED, so that an APPROVED bundle stays
\* APPROVED.
C10_StatusEdges ==
    [][\A b \in DOMAIN weekly :
          /\ b \in DOMAIN weekly'
          /\ weekly'[b].status # weekly[b].status =>
                <<weekly[b].status, weekly'[b].status>> \in StatusEdges]_vars

\* C25: in every step, however the timer requests interleave, a TimerSession that is
\* not running stays not running, every session keeps its start timestamp, owner and
\* project, and a step that makes a session makes a new record and leaves every
\* record there was, the owner's stopped ones included, as it was.
C25_RunningOnlyFalls ==
    [][/\ \A k \in DOMAIN timers :
             k \in DOMAIN timers' =>
                /\ timers'[k].is_running => timers[k].is_running
                /\ timers'[k].start_time = timers[k].start_time
                /\ timers'[k].user = timers[k].user
                /\ timers'[k].project = timers[k].project
       /\ DOMAIN timers' # DOMAIN timers =>
             /\ DOMAIN timers \subseteq DOMAIN timers'
             /\ \A k \in DOMAIN timers : timers'[k] = timers[k]]_vars

\* An owner has a stopped session, started earlier, and a newer one that is running.
C25_Witness ==
    \E j, k \in DOMAIN timers :
       /\ timers[j].user = timers[k].user
       /\ ~timers[j].is_running /\ timers[k].is_running
       /\ timers[j].start_time < timers[k].start_time

-----------------------------------------------------------------------------
(* The timer of one worker, each request run to completion: w1 starts and    *)
(* stops timers, m1 tries to stop them, w1 submits and m1 approves the weeks. *)

TimerViews == {"timer_start", "timer_stop"}

TimerSeqInit ==
    /\ now = StartTime
    /\ projects = [p \in Projects |-> [is_active |-> TRUE]]
    /\ entries = << >>
    /\ nextEntry = 1
    /\ weekly = << >>
    /\ timers = << >>
    /\ nextTimer = 1
    /\ last = NoRequest
    /\ watch = [done |-> TimerViews, refused |-> TimerViews]
    /\ reqs = [r \in Slots |-> Idle]

TimerSeqNext ==
    \/ Tick
    \/ TimerRequests({"w1"}, {"p1"})
    \/ \E k \in 1 .. MaxTimers : timer_stop("m1", k)
    \/ \E wk \in WeekStartsOf(InputDates), n \in Notes : submit_week("w1", wk, n)
    \/ \E b \in 1 .. MaxBundles : approve_weekly_timesheet("m1", b)

TimerSeqSpec == TimerSeqInit /\ [][TimerSeqNext]_vars

-----------------------------------------------------------------------------
(* Properties of the timer, checked under TimerSeqSpec *)

\* The step is a request of the handler op: it records op, and it is not the clock
\* moving under an unchanged record (a request that moves the clock writes a row).
RequestStep(op) == last'.op = op /\ (now' = now \/ db' # db)

\* C11: a timer-start request by an owner who has a running session is refused: no
\* TimerSession is created, the sessions are as they were, and the owner still has
\* exactly one running session.
C11_StartWhileRunningRefused ==
    [][\A u \in Users :
          (/\ RequestStep("timer_start") /\ last'.user = u
           /\ \E k \in DOMAIN timers : timers[k].user = u /\ timers[k].is_running)
             => /\ ~last'.ok
                /\ timers' = timers /\ nextTimer' = nextTimer
                /\ Cardinality({k \in DOMAIN timers' :
                       timers'[k].user = u /\ timers'[k].is_running}) = 1]_vars

\* A start has just been refused for an owner whose one timer is running.
C11_Witness ==
    /\ last.op = "timer_start" /\ ~last.ok
    /\ \E k \in DOMAIN timers : timers[k].user = last.user /\ timers[k].is_running

\* C12: a successful stop of a running timer marks the timer not running and creates
\* exactly one entry: kind TIMER, status PENDING, the timer's owner and project, the
\* timer's start date, the whole minutes elapsed from the start to the stop, attached
\* to the owner's bundle of the week of the start date, which is DRAFT if the stop
\* created it.
C12_StopCreatesOneEntry ==
    [][(RequestStep("timer_stop") /\ last'.ok) =>
          LET k == last'.pk
              made == DOMAIN entries' \ DOMAIN entries
          IN  /\ timers[k].is_running /\ ~timers'[k].is_running
              /\ Cardinality(made) = 1
              /\ \A e \in made :
                    LET row == entries'[e]
                        b == row.weekly_timesheet
                    IN  /\ row.entry_type = "TIMER" /\ row.status = "PENDING"
                        /\ row.user = timers[k].user
                        /\ row.project = timers[k].project
                        /\ row.date = DateOf(timers[k].start_time)
                        /\ row.duration_minutes * TicksPerMinute
                              <= now' - timers[k].start_time
                        /\ now' - timers[k].start_time
                              < (row.duration_minutes + 1) * TicksPerMinute
                        /\ b \in DOMAIN weekly'
                        /\ weekly'[b].user = row.user
                        /\ weekly'[b].week_start_date <= row.date
                        /\ row.date <= weekly'[b].week_end_date
                        /\ weekly'[b].status \in {"DRAFT", "REJECTED"}
                        /\ b \notin DOMAIN weekly => weekly'[b].status = "DRAFT"
              /\ \A e \in DOMAIN entries : e \in DOMAIN entries' /\ entries'[e] = entries[e]]_vars

\* A timer started on one day has just been stopped on the next day, in the next
\* week, and the stop created the bundle of the week of the start.
C12_Witness ==
    /\ last.op = "timer_stop" /\ last.ok
    /\ DateOf(timers[last.pk].start_time) < DateOf(now)
    /\ \E e \in DOMAIN entries :
          /\ entries[e].entry_type = "TIMER"
          /\ entries[e].duration_minutes >= 1
          /\ entries[e].date = DateOf(timers[last.pk].start_time)
          /\ Len(weekly) = 1

\* C13: every TimeEntry in every reachable state has duration_minutes >= 1; a timer
\* stopped less than a minute after its start yields an entry of 1 minute, never 0.
C13_DurationAtLeastOne ==
    \A e \in DOMAIN entries : entries[e].duration_minutes >= 1

\* C18: when a running timer is stopped by its owner and the bundle of the timer's
\* start week is SUBMITTED or APPROVED, the timer is marked not running, no entry is
\* created, and the bundles and the entries are as they were.
C18_StopIntoClosedWeek ==
    [][\A k \in DOMAIN timers :
          (/\ RequestStep("timer_stop") /\ last'.pk = k /\ last'.user = timers[k].user
           /\ timers[k].is_running
           /\ \E b \in LookupWeekly(weekly, timers[k].user,
                                    week_start_of(DateOf(timers[k].start_time))) :
                 weekly[b].status \in {"SUBMITTED", "APPROVED"})
             => /\ ~timers'[k].is_running
                /\ entries' = entries /\ nextEntry' = nextEntry
                /\ weekly' = weekly]_vars

\* A stop has just been refused entry into an APPROVED week, and the timer is stopped.
C18_Witness ==
    /\ last.op = "timer_stop" /\ ~last.ok /\ last.arg = "Cannot add entries"
    /\ ~timers[last.pk].is_running
    /\ \E b \in LookupWeekly(weekly, timers[last.pk].user,
                             week_start_of(DateOf(timers[last.pk].start_time))) :
          weekly[b].status = "APPROVED"

-----------------------------------------------------------------------------
(* The Django admin site's bulk actions on time entries (timesheet/admin.py) *)

\* The accounts that can log in to the admin site
StaffUsers == {"a1"}

\* queryset.filter(status="PENDING").update(status=...)
UpdatePendingStatus(es, sel, status) ==
    [e \in DOMAIN es |->
        IF e \in sel /\ es[e].status = "PENDING"
        THEN [es[e] EXCEPT !.status = status]
        ELSE es[e]]

\* TimeEntryAdmin.approve_entries
approve_entries(u, sel) ==
    /\ u \in StaffUsers
    /\ sel \subseteq DOMAIN entries /\ sel # {}
    /\ entries' = UpdatePendingStatus(entries, sel, "APPROVED")
    /\ last' = Completed("approve_entries", u, 0, "", {})
    /\ UNCHANGED <<now, projects, nextEntry, weekly, timers, nextTimer, watch, reqs>>

\* TimeEntryAdmin.reject_entries
reject_entries(u, sel) ==
    /\ u \in StaffUsers
    /\ sel \subseteq DOMAIN entries /\ sel # {}
    /\ entries' = UpdatePendingStatus(entries, sel, "REJECTED")
    /\ last' = Completed("reject_entries", u, 0, "", {})
    /\ UNCHANGED <<now, projects, nextEntry, weekly, timers, nextTimer, watch, reqs>>

AdminRequests(U) ==
    \/ \E u \in U, sel \in SUBSET (1 .. MaxEntries) : approve_entries(u, sel)
    \/ \E u \in U, sel \in SUBSET (1 .. MaxEntries) : reject_entries(u, sel)

-----------------------------------------------------------------------------
(* Entries and their decisions, each request run to completion: the worker  *)
(* w1 and the manager m1 on one project and the week that has just ended,   *)
(* and the admin site.                                                      *)

EntryViews ==
    {"timesheet_update", "timesheet_delete", "approve_entry", "reject_entry",
     "approve_weekly_timesheet", "reject_weekly_timesheet"}

\* The Monday after week 0
EntryInit ==
    /\ now = (StartDay + 1) * TicksPerDay
    /\ projects = [p \in Projects |-> [is_active |-> TRUE]]
    /\ entries = << >>
    /\ nextEntry = 1
    /\ weekly = << >>
    /\ timers = << >>
    /\ nextTimer = 1
    /\ last = NoRequest
    /\ watch = [done |-> EntryViews, refused |-> EntryViews]
    /\ reqs = [r \in Slots |-> Idle]

EntryNext ==
    \/ ClockTick
    \/ EntryRequests({"w1"}, WorkflowUsers, {"p1"}, {StartDay})
    \/ BundleRequests({"w1"}, WorkflowUsers, {StartDay})
    \/ AdminRequests(StaffUsers)

EntrySpec == EntryInit /\ [][EntryNext]_vars

-----------------------------------------------------------------------------
(* Properties of entries and their decisions, checked under EntrySpec *)

\* The entry's bundle, if it has one, is DRAFT or REJECTED
InOpenWeek(row, ws) ==
    row.weekly_timesheet = NoBundle
       \/ ws[row.weekly_timesheet].status \in {"DRAFT", "REJECTED"}

\* C14: an entry-level approve or reject of an entry that is already APPROVED or
\* REJECTED is refused and leaves every entry (status, approver, approval timestamp,
\* rejection reason) as it was.
C14_DecidedEntryStays ==
    [][\A e \in DOMAIN entries :
          (/\ RequestStep("approve_entry") \/ RequestStep("reject_entry")
           /\ last'.pk = e
           /\ entries[e].status # "PENDING")
             => (~last'.ok /\ entries' = entries)]_vars

\* A manager's reject of an entry the manager had approved has just been refused.
C14_Witness ==
    /\ last.op = "reject_entry" /\ ~last.ok
    /\ CanApproveRole(last.user)
    /\ last.pk \in DOMAIN entries
    /\ entries[last.pk].status = "APPROVED"
    /\ entries[last.pk].approved_by = last.user
    /\ entries[last.pk].rejection_reason = ""

\* C15: an edit or delete by an actor who is not an admin, of an entry that is not
\* PENDING or whose bundle is SUBMITTED or APPROVED, is refused and leaves every
\* entry as it was.
C15_ChangeOnlyPending ==
    [][\A e \in DOMAIN entries :
          (/\ RequestStep("timesheet_update") \/ RequestStep("timesheet_delete")
           /\ last'.pk = e
           /\ ~is_admin(last'.user)
           /\ ~(entries[e].status = "PENDING" /\ InOpenWeek(entries[e], weekly)))
             => (~last'.ok /\ entries' = entries)]_vars

\* C15 as amended: an edit or delete by an actor who is not an admin, of an entry that
\* is APPROVED or whose bundle is SUBMITTED or APPROVED, is refused and leaves every
\* entry as it was.
C15_ChangeOnlyUnapproved ==
    [][\A e \in DOMAIN entries :
          (/\ RequestStep("timesheet_update") \/ RequestStep("timesheet_delete")
           /\ last'.pk = e
           /\ ~is_admin(last'.user)
           /\ ~(entries[e].status # "APPROVED" /\ InOpenWeek(entries[e], weekly)))
             => (~last'.ok /\ entries' = entries)]_vars

\* The owner's delete of an individually approved entry in a DRAFT week has just been
\* refused.
C15_Witness ==
    /\ last.op = "timesheet_delete" /\ ~last.ok
    /\ last.pk \in DOMAIN entries
    /\ entries[last.pk].user = last.user
    /\ entries[last.pk].status = "APPROVED"
    /\ weekly[entries[last.pk].weekly_timesheet].status = "DRAFT"

\* C16: right after a successful reject of a bundle its owner passes the checks of
\* edit and delete for every entry attached to it, and a create for its week is
\* admitted to it; and while a bundle is REJECTED it stays the same record, changed
\* by nothing but its submit, with no other bundle made for its owner and week.
C16_RejectedWeekIsOpen ==
    [][/\ (RequestStep("reject_weekly_timesheet") /\ last'.ok) =>
             LET b == last'.pk
                 o == weekly'[b].user
                 wk == weekly'[b].week_start_date
             IN  /\ \A e \in time_entries(entries', b) :
                        MayChangeEntry(o, entries'[e], weekly')
                 /\ GetOrCreateRows(weekly', o, wk) = weekly'
                 /\ GetOrCreatePk(weekly', o, wk) = b
                 /\ BundleMutable(weekly'[b].status)
       /\ \A b \in DOMAIN weekly :
             weekly[b].status = "REJECTED" =>
                /\ b \in DOMAIN weekly'
                /\ weekly'[b] = weekly[b] \/ weekly'[b].status = "SUBMITTED"
                /\ \A c \in DOMAIN weekly' \ DOMAIN weekly :
                      ~(/\ weekly'[c].user = weekly[b].user
                        /\ weekly'[c].week_start_date = weekly[b].week_start_date)]_vars

\* The owner has just edited an entry that the rejection of its bundle had rejected,
\* after adding a new entry to the rejected bundle.
C16_Witness ==
    /\ last.op = "timesheet_update" /\ last.ok
    /\ last.pk \in DOMAIN entries
    /\ entries[last.pk].user = last.user
    /\ entries[last.pk].status = "REJECTED"
    /\ LET b == entries[last.pk].weekly_timesheet
       IN  /\ weekly[b].status = "REJECTED"
           /\ entries[last.pk].rejection_reason = weekly[b].rejection_reason
           /\ \E e \in time_entries(entries, b) :
                 entries[e].status = "PENDING" /\ entries[e].approved_by = NoUser

\* C17: in every reachable state every entry attached to a bundle has its date within
\* the bundle's week; an edit that moves the date to another week moves the entry to
\* the bundle of that week.
C17_EntryDateInBundleWeek ==
    \A e \in DOMAIN entries :
       entries[e].weekly_timesheet # NoBundle =>
          /\ weekly[entries[e].weekly_timesheet].week_start_date <= entries[e].date
          /\ entries[e].date <= weekly[entries[e].weekly_timesheet].week_end_date

\* C19: in every reachable state every APPROVED entry has an approver and an approval
\* timestamp, whether approve_entry, the bundle's approval or the admin site's bulk
\* action approved it.
C19_ApprovedHasApprover ==
    \A e \in DOMAIN entries :
       entries[e].status = "APPROVED" =>
          entries[e].approved_by # NoUser /\ entries[e].approved_at # NoTime

\* The requests that decide an entry or a bundle
DecisionViews ==
    {"approve_entry", "reject_entry", "approve_weekly_timesheet",
     "reject_weekly_timesheet"}

\* C20: an approve or reject of an entry or a bundle by an actor whose role is WORKER
\* is refused and leaves every entry and every bundle as it was; a bundle leaves
\* SUBMITTED only by a successful request of a MANAGER or ADMIN.
C20_WorkerNeverDecides ==
    [][/\ \A op \in DecisionViews :
             (RequestStep(op) /\ get_user_role(last'.user) = "WORKER")
                => (~last'.ok /\ entries' = entries /\ weekly' = weekly)
       /\ \A b \in DOMAIN weekly :
             (weekly[b].status = "SUBMITTED" /\ weekly'[b].status # "SUBMITTED")
                => /\ last'.ok /\ last'.pk = b
                   /\ get_user_role(last'.user) \in {"MANAGER", "ADMIN"}]_vars

\* The owner's own approve of the SUBMITTED bundle has just been refused.
C20_Witness ==
    /\ last.op = "approve_weekly_timesheet" /\ ~last.ok
    /\ get_user_role(last.user) = "WORKER"
    /\ last.pk \in DOMAIN weekly
    /\ weekly[last.pk].user = last.user
    /\ weekly[last.pk].status = "SUBMITTED"
    /\ \A e \in time_entries(entries, last.pk) : entries[e].status = "PENDING"

-----------------------------------------------------------------------------
(* Projects, each request run to completion: the worker w1 logs time by hand *)
(* and by timer on two projects, which w1, the manager m1 and the admin a1   *)
(* try to activate, deactivate and delete.                                   *)

ProjectViews == {"project_delete"}

ProjectUsers == {"w1", "m1", "a1"}

ProjectInit ==
    /\ now = StartTime
    /\ projects = [p \in Projects |-> [is_active |-> TRUE]]
    /\ entries = << >>
    /\ nextEntry = 1
    /\ weekly = << >>
    /\ timers = << >>
    /\ nextTimer = 1
    /\ last = NoRequest
    /\ watch = [done |-> ProjectViews, refused |-> ProjectViews]
    /\ reqs = [r \in Slots |-> Idle]

ProjectNext ==
    \/ ProjectRequests(ProjectUsers, Projects)
    \/ TimerRequests({"w1"}, Projects)
    \/ \E p \in Projects, t \in FormTimes : timesheet_create("w1", p, StartDay, t[1], t[2])

ProjectSpec == ProjectInit /\ [][ProjectNext]_vars

-----------------------------------------------------------------------------
(* Properties of projects, checked under ProjectSpec *)

\* C22: no step creates a TimeEntry or a TimerSession for a project that is inactive
\* when the step is taken, the entry made by stopping a timer whose project was
\* deactivated while the timer ran included.
C22_NoCreationForInactiveProject ==
    [][/\ \A e \in DOMAIN entries' \ DOMAIN entries :
             /\ entries'[e].project \in DOMAIN projects
             /\ projects[entries'[e].project].is_active
       /\ \A k \in DOMAIN timers' \ DOMAIN timers :
             /\ timers'[k].project \in DOMAIN projects
             /\ projects[timers'[k].project].is_active]_vars

-----------------------------------------------------------------------------
(* Bucket resolution over two weeks of dates: the clock starts on any day of  *)
(* the two weeks; the workers w1 and w2 open the dashboard and create entries *)
(* for any of the days, and w1 runs a timer.                                  *)

WeekViews == {"dashboard"}

WeekDates == 0 .. MaxWeekDay

WeekInit ==
    /\ now \in {d * TicksPerDay : d \in WeekDates}
    /\ projects = [p \in Projects |-> [is_active |-> TRUE]]
    /\ entries = << >>
    /\ nextEntry = 1
    /\ weekly = << >>
    /\ timers = << >>
    /\ nextTimer = 1
    /\ last = NoRequest
    /\ watch = [done |-> WeekViews, refused |-> {}]
    /\ reqs = [r \in Slots |-> Idle]

WeekNext ==
    \/ \E u \in {"w1", "w2"} : dashboard(u)
    \/ \E u \in {"w1", "w2"}, d \in WeekDates, t \in FormTimes :
          timesheet_create(u, "p1", d, t[1], t[2])
    \/ TimerRequests({"w1"}, {"p1"})

WeekSpec == WeekInit /\ [][WeekNext]_vars

-----------------------------------------------------------------------------
(* Property of bucket resolution, checked under WeekSpec *)

\* The day is a Monday (day 0 is one)
IsMonday(d) == d % 7 = 0

\* C27: every bundle has a Monday as week-start and week-start + 6 as week-end; a
\* step that stores an entry, by manual create or by timer stop, attaches it to a
\* bundle of the entry's owner whose week holds the entry's date; the dashboard
\* resolves the bundle of the actor whose week holds today; and a bundle made by
\* any of them starts DRAFT.
C27_BundleIsMondayWeek ==
    [][/\ \A b \in DOMAIN weekly' :
             /\ IsMonday(weekly'[b].week_start_date)
             /\ weekly'[b].week_end_date = weekly'[b].week_start_date + 6
       /\ \A b \in DOMAIN weekly' \ DOMAIN weekly : weekly'[b].status = "DRAFT"
       /\ \A e \in DOMAIN entries' \ DOMAIN entries :
             LET b == entries'[e].weekly_timesheet
             IN  /\ b \in DOMAIN weekly'
                 /\ weekly'[b].user = entries'[e].user
                 /\ weekly'[b].week_start_date <= entries'[e].date
                 /\ entries'[e].date <= weekly'[b].week_end_date
       /\ (RequestStep("dashboard") /\ last'.ok) =>
             /\ last'.pk \in DOMAIN weekly'
             /\ weekly'[last'.pk].user = last'.user
             /\ weekly'[last'.pk].week_start_date <= DateOf(now)
             /\ DateOf(now) <= weekly'[last'.pk].week_end_date]_vars

\* A Sunday's entry sits in the bundle that starts six days before it, and the same
\* owner has the bundle of the week after, which starts on the day after that Sunday.
C27_Witness ==
    \E e \in DOMAIN entries, c \in DOMAIN weekly :
       LET b == entries[e].weekly_timesheet
       IN  /\ entries[e].date = weekly[b].week_start_date + 6
           /\ weekly[c].user = weekly[b].user
           /\ weekly[c].week_start_date = entries[e].date + 1

-----------------------------------------------------------------------------
(* The manual entry form: w1 creates entries on both projects from start and *)
(* end times that are and are not an interval, and deletes them; m1 switches *)
(* the projects off and on.                                                  *)

FormViews == {"timesheet_create"}

FormInit ==
    /\ now = StartTime
    /\ projects = [p \in Projects |-> [is_active |-> TRUE]]
    /\ entries = << >>
    /\ nextEntry = 1
    /\ weekly = << >>
    /\ timers = << >>
    /\ nextTimer = 1
    /\ last = NoRequest
    /\ watch = [done |-> FormViews, refused |-> FormViews]
    /\ reqs = [r \in Slots |-> Idle]

FormNext ==
    \/ \E p \in Projects, t \in FormTimesAll :
          timesheet_create("w1", p, StartDay, t[1], t[2])
    \/ \E e \in 1 .. MaxEntries : timesheet_delete("w1", e)
    \/ \E p \in Projects, a \in BOOLEAN : project_update("m1", p, a)

FormSpec == FormInit /\ [][FormNext]_vars

-----------------------------------------------------------------------------
(* Property of the manual entry form, checked under FormSpec *)

C28_WitnessRefused ==
    /\ last.op = "timesheet_create" /\ ~last.ok
    /\ last.arg = <<600, 600>>

-----------------------------------------------------------------------------
(* Property of the entry's status, checked under EditSpec *)

\* C26: a step takes an entry's status away from PENDING only as a successful
\* entry-level approve or reject of that entry or a successful approve or reject of
\* its bundle, and back from APPROVED or REJECTED to PENDING only as a successful
\* submit of its bundle; so no create, edit, approve or reject of an entry re-opens a
\* decided entry.
C26_EntryStatusMoves ==
    [][\A e \in DOMAIN entries :
          (e \in DOMAIN entries' /\ entries'[e].status # entries[e].status) =>
             /\ last'.ok
             /\ entries[e].status = "PENDING" =>
                   \/ last'.op \in {"approve_entry", "reject_entry"} /\ last'.pk = e
                   \/ /\ last'.op \in {"approve_weekly_timesheet",
                                       "reject_weekly_timesheet"}
                      /\ last'.pk = entries[e].weekly_timesheet
             /\ entries'[e].status = "PENDING" =>
                   /\ last'.op = "submit_week"
                   /\ last'.pk = entries[e].weekly_timesheet]_vars

-----------------------------------------------------------------------------
(* More properties of the timer, checked under TimerSeqSpec *)

\* C24: a stop request on a timer that is already stopped, or that the caller does not
\* own, or that does not exist, fails: no entry is created, no bundle is created or
\* changed, and every timer record is as it was.
C24_StopOfStoppedOrForeignTimer ==
    [][\A k \in 1 .. MaxTimers :
          (/\ RequestStep("timer_stop") /\ last'.pk = k
           /\ k \in DOMAIN timers =>
                 (~timers[k].is_running \/ timers[k].user # last'.user))
             => /\ ~last'.ok
                /\ entries' = entries /\ nextEntry' = nextEntry
                /\ weekly' = weekly
                /\ timers' = timers]_vars

\* The owner's second stop of a timer, whose first stop made an entry, has just been
\* refused.
C24_Witness ==
    /\ last.op = "timer_stop" /\ ~last.ok /\ last.arg = ""
    /\ last.pk \in DOMAIN timers
    /\ timers[last.pk].user = last.user
    /\ ~timers[last.pk].is_running
    /\ Cardinality({e \in DOMAIN entries : entries[e].entry_type = "TIMER"}) = 1

-----------------------------------------------------------------------------
(* Property of a failing bundle transition, checked under FailSpec *)

\* C23: when a submit, approve or reject of a bundle has failed between the write
\* of the bundle's status and the bulk update of its entries, the bundle has the
\* status it had before the transition: the failed operation leaves no status
\* written on the bundle that its entries have not followed.
C23_FailedTransitionRollsBack ==
    (/\ last.op \in BundleTransitions /\ ~last.ok
     /\ last.arg \in {"DRAFT", "SUBMITTED", "REJECTED"})
        => weekly[last.pk].status = last.arg

\* C29: a delete request for a project by a WORKER or a MANAGER is refused and leaves
\* every table as it was; a delete by an ADMIN of a project there is succeeds and
\* removes that project with every TimeEntry and TimerSession of it, and leaves the
\* other projects, their entries and timers, and every bundle as they were; and a
\* project leaves the table in no other way.
C29_OnlyAdminDeletesProject ==
    [][/\ RequestStep("project_delete") =>
             LET p == last'.arg
                 role == get_user_role(last'.user)
             IN  /\ role \in {"WORKER", "MANAGER"} => (~last'.ok /\ db' = db)
                 /\ (role = "ADMIN" /\ p \in DOMAIN projects) => last'.ok
                 /\ last'.ok =>
                       /\ role = "ADMIN"
                       /\ DOMAIN projects' = DOMAIN projects \ {p}
                       /\ \A q \in DOMAIN projects' : projects'[q] = projects[q]
                       /\ DOMAIN entries' =
                             {e \in DOMAIN entries : entries[e].project # p}
                       /\ \A e \in DOMAIN entries' : entries'[e] = entries[e]
                       /\ DOMAIN timers' = {k \in DOMAIN timers : timers[k].project # p}
                       /\ \A k \in DOMAIN timers' : timers'[k] = timers[k]
                       /\ weekly' = weekly
       /\ \A p \in DOMAIN projects \ DOMAIN projects' :
             last'.op = "project_delete" /\ last'.ok /\ last'.arg = p]_vars

\* The admin has just deleted a project that had an entry and a timer: both are gone,
\* the entry of the other project and the bundle they shared are still there.
C29_Witness ==
    /\ last.op = "project_delete" /\ last.ok
    /\ get_user_role(last.user) = "ADMIN"
    /\ nextEntry = 3 /\ Cardinality(DOMAIN entries) = 1
    /\ nextTimer = 2 /\ DOMAIN timers = {}
    /\ \A e \in DOMAIN entries :
          /\ entries[e].project \in DOMAIN projects
          /\ entries[e].weekly_timesheet \in DOMAIN weekly

-----------------------------------------------------------------------------
(* More properties of entries and their decisions, checked under EntrySpec *)

\* C21: a reject of a bundle with an empty reason fails, whoever sends it and whatever
\* the bundle's status: every bundle, so a SUBMITTED one, and every entry is as it
\* was; and in every state a REJECTED bundle has a non-empty rejection reason and an
\* approver.
C21_EmptyReasonRejectFails ==
    [][/\ (RequestStep("reject_weekly_timesheet") /\ last'.arg = "")
             => (~last'.ok /\ weekly' = weekly /\ entries' = entries)
       /\ \A b \in DOMAIN weekly' :
             weekly'[b].status = "REJECTED"
                => /\ weekly'[b].rejection_reason # ""
                   /\ weekly'[b].approved_by # NoUser]_vars

\* A manager's reject of a SUBMITTED bundle with an empty reason has just been
\* refused, and the bundle's entry is still PENDING.
C21_Witness ==
    /\ last.op = "reject_weekly_timesheet" /\ ~last.ok /\ last.arg = ""
    /\ get_user_role(last.user) = "MANAGER"
    /\ last.pk \in DOMAIN weekly
    /\ weekly[last.pk].status = "SUBMITTED"
    /\ time_entries(entries, last.pk) # {}
    /\ \A e \in time_entries(entries, last.pk) : entries[e].status = "PENDING"

\* C30: in every reachable state an entry attached to a bundle is APPROVED only if
\* its bundle is APPROVED: none is APPROVED under a DRAFT, SUBMITTED or REJECTED
\* bundle.
C30_ApprovedOnlyInApprovedBundle ==
    \A e \in DOMAIN entries :
       (entries[e].weekly_timesheet # NoBundle /\ entries[e].status = "APPROVED")
          => weekly[entries[e].weekly_timesheet].status = "APPROVED"

-----------------------------------------------------------------------------
(* Who may change an entry: two workers log time on two projects for the     *)
(* week that has just ended, and every actor tries to edit and delete the    *)
(* entries; the manager decides entries and bundles.  Each request runs to   *)
(* completion.                                                                *)

OwnerViews == {"timesheet_update", "timesheet_delete"}

Owners == {"w1", "w2"}

\* The Monday after week 0
OwnerInit ==
    /\ now = (StartDay + 1) * TicksPerDay
    /\ projects = [p \in Projects |-> [is_active |-> TRUE]]
    /\ entries = << >>
    /\ nextEntry = 1
    /\ weekly = << >>
    /\ timers = << >>
    /\ nextTimer = 1
    /\ last = NoRequest
    /\ watch = [done |-> OwnerViews, refused |-> OwnerViews]
    /\ reqs = [r \in Slots |-> Idle]

OwnerNext ==
    \/ \E u \in Owners, t \in FormTimes : timesheet_create(u, "p1", StartDay, t[1], t[2])
    \/ \E u \in Users, e \in 1 .. MaxEntries, p \in Projects, t \in FormTimes :
          timesheet_update(u, e, p, StartDay, t[1], t[2])
    \/ \E u \in Users, e \in 1 .. MaxEntries : timesheet_delete(u, e)
    \/ \E e \in 1 .. MaxEntries : approve_entry("m1", e)
    \/ \E e \in 1 .. MaxEntries, x \in Reasons : reject_entry("m1", e, x)
    \/ \E n \in Notes : submit_week("w1", week_start_of(StartDay), n)
    \/ \E b \in 1 .. MaxBundles, x \in Reasons : reject_weekly_timesheet("m1", b, x)

OwnerSpec == OwnerInit /\ [][OwnerNext]_vars

-----------------------------------------------------------------------------
(* More properties of the timer under interleaved requests, checked under TimerSpec *)

\* C32: every TimerSession yields at most one TimeEntry, however the stop requests
\* on it interleave: in every reachable state there are no more entries of kind
\* TIMER than there are sessions.
C32_OneEntryPerTimer ==
    Cardinality({e \in DOMAIN entries : entries[e].entry_type = "TIMER"})
        <= Cardinality(DOMAIN timers)

-----------------------------------------------------------------------------
(* Two deciders on one bundle: the worker w1 logs time for the week that has *)
(* just ended and submits it, each of these requests run to completion; the  *)
(* manager m1 approves and the admin a1 rejects, statement by statement.     *)

DecideInit ==
    /\ now = (StartDay + 1) * TicksPerDay
    /\ projects = [p \in Projects |-> [is_active |-> TRUE]]
    /\ entries = << >>
    /\ nextEntry = 1
    /\ weekly = << >>
    /\ timers = << >>
    /\ nextTimer = 1
    /\ last = NoRequest
    /\ watch = [done |-> {}, refused |-> {}]
    /\ reqs = [r \in Slots |-> Idle]

DecideNext ==
    \/ ClockTick
    \/ \E t \in FormTimes : timesheet_create("w1", "p1", StartDay, t[1], t[2])
    \/ \E n \in Notes : submit_week("w1", week_start_of(StartDay), n)
    \/ \E r \in Slots, b \in 1 .. MaxBundles : approve_weekly_timesheet_check(r, "m1", b)
    \/ \E r \in Slots, b \in 1 .. MaxBundles, x \in Reasons :
          reject_weekly_timesheet_check(r, "a1", b, x)
    \/ \E r \in Slots : weekly_timesheet_save(r)
    \/ \E r \in Slots : time_entries_update(r)

DecideSpec == DecideInit /\ [][DecideNext]_vars

\* C33: when the last of the approve and reject requests in flight on a bundle has
\* run its update of the entries and the bundle is APPROVED or REJECTED, every
\* attached entry has the bundle's status and the bundle's approver, and under a
\* REJECTED bundle the bundle's rejection reason.
C33_RacingDecisionsAgree ==
    [][\A r \in Slots :
          (/\ reqs[r].pc = "update"
           /\ \A q \in Slots : reqs'[q] = Idle
           /\ weekly'[reqs[r].bundle].status \in {"APPROVED", "REJECTED"})
             => \A e \in time_entries(entries', reqs[r].bundle) :
                   /\ entries'[e].status = weekly'[reqs[r].bundle].status
                   /\ entries'[e].approved_by = weekly'[reqs[r].bundle].approved_by
                   /\ (weekly'[reqs[r].bundle].status = "REJECTED"
                         => entries'[e].rejection_reason
                               = weekly'[reqs[r].bundle].rejection_reason)]_vars

-----------------------------------------------------------------------------
(* Hours.  A number of hours with two decimals is counted in hundredths of   *)
(* an hour.                                                                   *)

\* TimeEntry.duration_hours, round(duration_minutes / 60, 2): 100 * mins / 60 to the
\* nearest whole number (5 * mins / 3 never lies halfway between two)
duration_hours(mins) == (10 * mins + 3) \div 6

RECURSIVE SumOfHours(_, _)
\* sum(entry.duration_hours for entry in ...) over the entries S
SumOfHours(es, S) ==
    IF S = {} THEN 0
    ELSE LET e == CHOOSE x \in S : TRUE
         IN  duration_hours(es[e].duration_minutes) + SumOfHours(es, S \ {e})

RECURSIVE SumOfMinutes(_, _)
\* Sum("duration_minutes") over the entries S
SumOfMinutes(es, S) ==
    IF S = {} THEN 0
    ELSE LET e == CHOOSE x \in S : TRUE
         IN  es[e].duration_minutes + SumOfMinutes(es, S \ {e})

\* WeeklyTimesheet.total_hours
total_hours(es, b) == SumOfHours(es, time_entries(es, b))

\* C34: in every reachable state the total hours of every bundle are the sum of the
\* minutes of its entries converted to hours once, with two decimals (checked
\* under FormSpec).
C34_TotalHoursFromSummedMinutes ==
    \A b \in DOMAIN weekly :
       total_hours(entries, b)
          = duration_hours(SumOfMinutes(entries, time_entries(entries, b)))

-----------------------------------------------------------------------------
(* More properties of who may change an entry, checked under OwnerSpec *)

\* C35: in every reachable state every bundle that is SUBMITTED or APPROVED has at
\* least one entry attached.
C35_SubmittedBundleNotEmpty ==
    \A b \in DOMAIN weekly :
       weekly[b].status \in {"SUBMITTED", "APPROVED"}
          => \E e \in DOMAIN entries : entries[e].weekly_timesheet = b

\* C37: a successful edit of an entry changes nothing but the entry's project, date
\* and duration: its status, approver, approval timestamp, rejection reason, owner,
\* kind and bundle are as before, and so is every other row.
C37_EditFrame ==
    [][\A e \in DOMAIN entries :
          (RequestStep("timesheet_update") /\ last'.ok /\ last'.pk = e) =>
             /\ e \in DOMAIN entries'
             /\ entries' = [entries EXCEPT ![e].project = entries'[e].project,
                                           ![e].date = entries'[e].date,
                                           ![e].duration_minutes =
                                               entries'[e].duration_minutes]
             /\ UNCHANGED <<projects, nextEntry, weekly, timers, nextTimer>>]_vars

\* An entry that the manager rejected on its own, in a week still DRAFT, has just
\* been edited onto the other project and is REJECTED as before.
C37_Witness ==
    /\ last.op = "timesheet_update" /\ last.ok
    /\ last.pk \in DOMAIN entries
    /\ entries[last.pk].project = "p2"
    /\ entries[last.pk].status = "REJECTED"
    /\ entries[last.pk].approved_by = "m1"
    /\ entries[last.pk].rejection_reason = "r1"
    /\ weekly[entries[last.pk].weekly_timesheet].status = "DRAFT"

-----------------------------------------------------------------------------
(* More properties of the weekly workflow, checked under Spec *)

\* C36: a successful submit of a bundle changes nothing but the bundle's status,
\* submission timestamp and notes and the status of the entries attached to it: the
\* approver, approval timestamp and rejection reason of the bundle and of every
\* entry, every other field and every other row are as before.
C36_SubmitFrame ==
    [][\A b \in DOMAIN weekly :
          (SubmitStep(b) /\ last'.ok) =>
             /\ weekly' = [weekly EXCEPT ![b].status = weekly'[b].status,
                                         ![b].submitted_at = weekly'[b].submitted_at,
                                         ![b].notes = weekly'[b].notes]
             /\ DOMAIN entries' = DOMAIN entries
             /\ \A e \in DOMAIN entries :
                   IF entries[e].weekly_timesheet = b
                   THEN entries'[e] = [entries[e] EXCEPT !.status = entries'[e].status]
                   ELSE entries'[e] = entries[e]
             /\ UNCHANGED <<projects, nextEntry, timers, nextTimer>>]_vars

\* A rejected bundle has just been submitted again: the bundle and an entry of it,
\* now PENDING, still carry the approver and the reason of the rejection.
C36_Witness ==
    /\ last.op = "submit_week" /\ last.ok
    /\ weekly[last.pk].status = "SUBMITTED"
    /\ weekly[last.pk].approved_by # NoUser
    /\ weekly[last.pk].approved_at # NoTime
    /\ weekly[last.pk].rejection_reason # ""
    /\ \E e \in time_entries(entries, last.pk) :
          /\ entries[e].status = "PENDING"
          /\ entries[e].approved_by = weekly[last.pk].approved_by
          /\ entries[e].rejection_reason = weekly[last.pk].rejection_reason

-----------------------------------------------------------------------------
(* Resolving the bundle of a week: the worker w1 opens the dashboard, logs   *)
(* time and runs a timer from the Sunday that ends week 0 into the Monday    *)
(* after it, submits, and the manager m1 decides; each request runs to       *)
(* completion.                                                                *)

ResolveViews == {"dashboard", "timesheet_create", "timer_stop"}

ResolveInit ==
    /\ now = StartTime
    /\ projects = [p \in Projects |-> [is_active |-> TRUE]]
    /\ entries = << >>
    /\ nextEntry = 1
    /\ weekly = << >>
    /\ timers = << >>
    /\ nextTimer = 1
    /\ last = NoRequest
    /\ watch = [done |-> ResolveViews, refused |-> ResolveViews]
    /\ reqs = [r \in Slots |-> Idle]

ResolveNext ==
    \/ Tick
    \/ dashboard("w1")
    \/ \E d \in InputDates, t \in FormTimes : timesheet_create("w1", "p1", d, t[1], t[2])
    \/ TimerRequests({"w1"}, {"p1"})
    \/ \E wk \in WeekStartsOf(InputDates), n \in Notes : submit_week("w1", wk, n)
    \/ \E b \in 1 .. MaxBundles : approve_weekly_timesheet("m1", b)
    \/ \E b \in 1 .. MaxBundles, x \in Reasons : reject_weekly_timesheet("m1", b, x)

ResolveSpec == ResolveInit /\ [][ResolveNext]_vars

\* C38: a dashboard, create or timer-stop request leaves every bundle there is
\* exactly as it was, whatever its status, and where the owner has a bundle for the
\* week it is that bundle the request resolves: the dashboard shows it and the new
\* entry is attached to it.
C38_ResolveKeepsBundle ==
    [][(\/ RequestStep("dashboard")
        \/ RequestStep("timesheet_create")
        \/ RequestStep("timer_stop"))
          => /\ \A b \in DOMAIN weekly : b \in DOMAIN weekly' /\ weekly'[b] = weekly[b]
             /\ \A e \in DOMAIN entries' \ DOMAIN entries :
                   \A b \in DOMAIN weekly :
                      (/\ weekly[b].user = entries'[e].user
                       /\ weekly[b].week_start_date <= entries'[e].date
                       /\ entries'[e].date <= weekly[b].week_end_date)
                         => entries'[e].weekly_timesheet = b
             /\ (last'.op = "dashboard" /\ last'.ok) =>
                   \A b \in DOMAIN weekly :
                      (/\ weekly[b].user = last'.user
                       /\ weekly[b].week_start_date <= DateOf(now)
                       /\ DateOf(now) <= weekly[b].week_end_date)
                         => last'.pk = b]_vars

\* An entry has just been created in a week that was rejected: it is attached to the
\* bundle of the rejection, which is REJECTED as before, with its approver, reason
\* and submission timestamp.
C38_Witness ==
    /\ last.op = "timesheet_create" /\ last.ok
    /\ last.pk \in DOMAIN entries
    /\ weekly[entries[last.pk].weekly_timesheet].status = "REJECTED"
    /\ weekly[entries[last.pk].weekly_timesheet].approved_by = "m1"
    /\ weekly[entries[last.pk].weekly_timesheet].rejection_reason = "r1"
    /\ weekly[entries[last.pk].weekly_timesheet].submitted_at # NoTime
    /\ entries[last.pk].status = "PENDING"

-----------------------------------------------------------------------------
(* Attaching entries: the workers w1 and w2 log time for the week that has   *)
(* just ended and run timers in the new week; w1 and the manager m1 edit     *)
(* entries.  Each request runs to completion.                                *)

AttachViews == {"timesheet_update"}

\* The Monday after week 0
AttachInit ==
    /\ now = (StartDay + 1) * TicksPerDay
    /\ projects = [p \in Projects |-> [is_active |-> TRUE]]
    /\ entries = << >>
    /\ nextEntry = 1
    /\ weekly = << >>
    /\ timers = << >>
    /\ nextTimer = 1
    /\ last = NoRequest
    /\ watch = [done |-> AttachViews, refused |-> {}]
    /\ reqs = [r \in Slots |-> Idle]

AttachNext ==
    \/ \E u \in Owners, t \in FormTimes : timesheet_create(u, "p1", StartDay, t[1], t[2])
    \/ TimerRequests(Owners, {"p1"})
    \/ \E u \in {"w1", "m1"}, e \in 1 .. MaxEntries, p \in Projects, t \in FormTimes :
          timesheet_update(u, e, p, StartDay, t[1], t[2])

AttachSpec == AttachInit /\ [][AttachNext]_vars

\* C39: after every step every entry attached to a bundle has the owner of that
\* bundle, and no step changes the owner of an entry or the bundle it is attached to.
C39_EntryOwnerIsBundleOwner ==
    [][/\ \A e \in DOMAIN entries' :
             entries'[e].weekly_timesheet # NoBundle
                => /\ entries'[e].weekly_timesheet \in DOMAIN weekly'
                   /\ weekly'[entries'[e].weekly_timesheet].user = entries'[e].user
       /\ \A e \in DOMAIN entries \cap DOMAIN entries' :
             /\ entries'[e].user = entries[e].user
             /\ entries'[e].weekly_timesheet = entries[e].weekly_timesheet]_vars

\* The manager has just edited the entry of one worker onto the other project; it
\* is still that worker's, in that worker's bundle, and the other worker has an entry
\* from a timer in a bundle of their own.
C39_Witness ==
    /\ last.op = "timesheet_update" /\ last.ok /\ last.user = "m1"
    /\ last.pk \in DOMAIN entries
    /\ entries[last.pk].project = "p2"
    /\ weekly[entries[last.pk].weekly_timesheet].user = entries[last.pk].user
    /\ \E e \in DOMAIN entries :
          /\ entries[e].user # entries[last.pk].user
          /\ entries[e].entry_type = "TIMER"
          /\ entries[e].weekly_timesheet # entries[last.pk].weekly_timesheet
          /\ weekly[entries[e].weekly_timesheet].user = entries[e].user

====
